---- MODULE Spec2Model ----
(***************************************************************************)
(* Model of fixed_streamlit_persistent.py: the batch evaluation driver     *)
(* run_psi_analysis (every encounter row x every PSI code, one engine call *)
(* per pair, a result record or an error record per pair, a progress       *)
(* fraction after every attempt) and the Streamlit script around it        *)
(* (session state, file upload, engine construction, analyze button,      *)
(* display, clearing of the session when no file is uploaded).             *)
(***************************************************************************)
EXTENDS Integers, Sequences, FiniteSets, TLC

(* ----------------------------- bounds ---------------------------------- *)
MaxRows == 2
MaxSessionRows == 1
MaxInvocations == 2
MaxUploads == 2

(* ------------------------ program constants ---------------------------- *)
FirstPsi == 2
StopPsi == 20
SkippedPsi == 16

None == [none |-> TRUE]
NaN == "NaN"

\* f"{i:02}": decimal, zero-padded to width 2.
Fmt02(i) == IF i < 10 THEN "0" \o ToString(i) ELSE ToString(i)

\* [f"PSI_{i:02}" for i in range(2, 20) if i != 16]
PSI_CODES ==
    LET range == [k \in 1..(StopPsi - FirstPsi) |-> FirstPsi + k - 1]
        kept  == SelectSeq(range, LAMBDA i : i # SkippedPsi)
    IN  [k \in 1..Len(kept) |-> "PSI_" \o Fmt02(kept[k])]

(* ----------------------------- data frames ----------------------------- *)
\* A data frame: a set of column names and a sequence of rows, every row a
\* function from the frame's columns to cell values.  A cell of a column
\* that the file leaves blank for a row holds NaN.
IdCells == {"A1", NaN}

RowsOver(cols, n) ==
    UNION {[1..k -> [cols -> {"x"} \cup IdCells]] : k \in 0..n}

FramesUpTo(n) ==
    LET withId == {[columns |-> {"EncounterID", "DX"}, rows |-> r] :
                     r \in {q \in RowsOver({"EncounterID", "DX"}, n) :
                              \A k \in 1..Len(q) : q[k]["DX"] = "x"
                                                /\ q[k]["EncounterID"] \in IdCells}}
        noId   == {[columns |-> {"DX"}, rows |-> r] :
                     r \in {q \in RowsOver({"DX"}, n) :
                              \A k \in 1..Len(q) : q[k]["DX"] = "x"}}
    IN  withId \cup noId

\* len(df)
LenDf(frame) == Len(frame.rows)

\* Faulty variant of IterRows: an empty frame yields one placeholder row.
IterRowsPadded(frame) ==
    IF frame.rows = << >>
    THEN << <<0, [c \in frame.columns |-> NaN]>> >>
    ELSE [k \in 1..Len(frame.rows) |-> <<k - 1, frame.rows[k]>>]

\* df.iterrows() over the default RangeIndex: (0, row0), (1, row1), ...
IterRows(frame) == [k \in 1..Len(frame.rows) |-> <<k - 1, frame.rows[k]>>]

\* row.get(key, default): the cell when the row has the column, else default.
RowGet(row, key, default) == IF key \in DOMAIN row THEN row[key] ELSE default

\* pd.DataFrame(list of dicts): columns are the keys of the records; an
\* empty list gives a frame without columns.
RecordFrame(records) ==
    [columns |-> IF records = << >> THEN {} ELSE DOMAIN records[1],
     rows    |-> records]

(* ------------------------------ engine --------------------------------- *)
\* Exceptions the engine raises: a ValueError with a message, or one
\* constructed without arguments.
BadData == [type |-> "ValueError", args |-> <<"bad data">>]
NoMessage == [type |-> "ValueError", args |-> << >>]
UnpackError == [type |-> "ValueError", args |-> <<"not enough values to unpack">>]

\* str(e) of an exception: "" without arguments, the argument when one.
Str(e) == IF e.args = << >> THEN "" ELSE e.args[1]

\* An engine is described by the pairs it faults on, the exception it
\* raises there, the status it reports elsewhere and the arity of the
\* tuple it returns.
FaultRules == {"never", "always", "noid", "somecodes"}

AllEngines ==
    {e \in [failOn : FaultRules, exc : {BadData, NoMessage},
            status : {"Inclusion", "Exclusion"}, arity : {2, 4}] :
        /\ (e.failOn = "never" => e.exc = BadData)
        /\ (e.failOn = "always" => e.status = "Inclusion" /\ e.arity = 4)
        /\ (e.arity = 2 => e.failOn = "never" /\ e.status = "Inclusion")}

SessionEngines ==
    {e \in AllEngines : /\ e.status = "Inclusion"
                        /\ e.arity = 4
                        /\ e.failOn \in {"never", "noid"}
                        /\ e.exc = BadData}

HasId(row) == "EncounterID" \in DOMAIN row /\ row["EncounterID"] # NaN

Faults(eng, row, code) ==
    CASE eng.failOn = "never"     -> FALSE
      [] eng.failOn = "always"    -> TRUE
      [] eng.failOn = "noid"      -> ~HasId(row)
      [] eng.failOn = "somecodes" -> code \in {PSI_CODES[2], PSI_CODES[Len(PSI_CODES)]}

\* calculator.evaluate_psi(row, psi_code)
EvaluatePsi(eng, row, code) ==
    IF Faults(eng, row, code)
    THEN [kind |-> "raise", exc |-> eng.exc]
    ELSE [kind |-> "return",
          value |-> IF eng.arity = 4
                    THEN <<eng.status, "flag", "detail", "codes">>
                    ELSE <<eng.status, "flag">>]

(* ------------------------------- state --------------------------------- *)
VARIABLES
    ss,                 \* st.session_state: results_df, error_df, analysis_complete
    uploaded,           \* the file uploader's value: None or the uploaded file
    uploads,            \* number of files uploaded so far in the session
    pc,                 \* position of the script run
    clicked,            \* value of the "Analyze PSI" button in this script run
    buttonShown,        \* the button was rendered by the latest script run
    df,                 \* the loaded data frame of this script run
    calculator,         \* the PSICalculator of this script run
    shown,              \* what the script run displayed: "none", "results", "error"
    results, errors,    \* locals of run_psi_analysis
    total_evaluations, current_evaluation,
    rowsLeft, idx, row, enc_id, j,
    progress_bar, status_text,
    signals,            \* the values passed to progress_bar.progress
    ret,                \* the pair run_psi_analysis returned, or None
    attempts,           \* history: the (idx, code position) of every engine call
    resAt, errAt,       \* history: the (idx, code position) of every record
    invocation,         \* history: number of the current call of run_psi_analysis
    prev,               \* history: what the previous call returned
    pre,                \* history: the session state when the script run started
    fatal,              \* history: "none", "load" or "engine" for this script run
    entered,            \* history: run_psi_analysis was entered in this script run
    storedFor           \* history: id of the upload the stored run was computed from

sessionVars == <<ss, uploaded, uploads, clicked, buttonShown, shown, pre, fatal,
                 entered, storedFor>>
inputVars == <<df, calculator>>
driverVars == <<results, errors, total_evaluations, current_evaluation, rowsLeft,
                idx, row, enc_id, j, progress_bar, status_text, signals, ret,
                attempts, resAt, errAt, invocation, prev>>
vars == <<pc, sessionVars, inputVars, driverVars>>

(* --------------------------- run_psi_analysis -------------------------- *)
\* f"Row{idx+1}"
RowLabel(i) == "Row" \o ToString(i + 1)

\* enc_id = row.get("EncounterID", f"Row{idx+1}")
EncId(r, i) == RowGet(r, "EncounterID", RowLabel(i))

\* Faulty variant of AppendRecord: the record is put in front.
PrependRecord(list, rec) == <<rec>> \o list

\* list.append(rec)
AppendRecord(list, rec) == Append(list, rec)

ResultRecord(enc, code, status, rationale) ==
    [EncounterID |-> enc, PSI |-> code, Status |-> status, Rationale |-> rationale]

ErrorRecord(enc, code, e) ==
    [EncounterID |-> enc, PSI |-> code, Error |-> Str(e)]

\* The try block: the engine call and the unpacking of its 4-tuple.  A
\* tuple of another length makes the unpacking raise ValueError.
Attempt(eng, r, code) ==
    LET out == EvaluatePsi(eng, r, code)
    IN  IF out.kind = "raise" THEN [ok |-> FALSE, exc |-> out.exc]
        ELSE IF Len(out.value) # 4 THEN [ok |-> FALSE, exc |-> UnpackError]
        ELSE [ok |-> TRUE, status |-> out.value[1], rationale |-> out.value[2]]

\* Faulty variant of ErrorsAfter: a fault without a message is not recorded.
ErrorsAfterDropSilent(list, enc, code, e) ==
    IF Str(e) = "" THEN list ELSE AppendRecord(list, ErrorRecord(enc, code, e))

\* except Exception as e: errors.append({...})
ErrorsAfter(list, enc, code, e) == AppendRecord(list, ErrorRecord(enc, code, e))

\* Faulty variant of PcAfterAttempt: a fault leaves the loop.
PcAfterAttemptPropagating(att) == IF att.ok THEN "progress" ELSE "aborted"

\* After the try/except statement control reaches line 50 in both branches.
PcAfterAttempt(att) == "progress"

\* Faulty variant of Fraction: the count before this attempt is reported.
FractionStale(cur, total) == <<cur - 1, total>>

\* current_evaluation / total_evaluations, kept as numerator and denominator
Fraction(cur, total) == <<cur, total>>

Begin ==
    /\ pc = "begin"
    /\ results' = << >>
    /\ errors' = << >>
    /\ progress_bar' = [visible |-> TRUE, value |-> <<0, 1>>]
    /\ status_text' = ""
    /\ total_evaluations' = LenDf(df) * Len(PSI_CODES)
    /\ current_evaluation' = 0
    /\ rowsLeft' = IterRows(df)
    /\ signals' = << >>
    /\ attempts' = << >>
    /\ resAt' = << >>
    /\ errAt' = << >>
    /\ ret' = None
    /\ entered' = TRUE
    /\ pc' = "row"
    /\ UNCHANGED <<ss, uploaded, uploads, clicked, buttonShown, shown, pre, fatal,
                   storedFor, inputVars, idx, row, enc_id, j, invocation, prev>>

NextRow ==
    /\ pc = "row"
    /\ rowsLeft # << >>
    /\ idx' = Head(rowsLeft)[1]
    /\ row' = Head(rowsLeft)[2]
    /\ rowsLeft' = Tail(rowsLeft)
    /\ enc_id' = EncId(row', idx')
    /\ status_text' = <<"Processing encounter", idx' + 1, LenDf(df), enc_id'>>
    /\ j' = 1
    /\ pc' = "eval"
    /\ UNCHANGED <<sessionVars, inputVars, results, errors, total_evaluations,
                   current_evaluation, progress_bar, signals, ret, attempts,
                   resAt, errAt, invocation, prev>>

Evaluate ==
    /\ pc = "eval"
    /\ LET code == PSI_CODES[j]
           att  == Attempt(calculator, row, code)
       IN  /\ attempts' = Append(attempts, <<idx, j>>)
           /\ IF att.ok
              THEN /\ results' = AppendRecord(results,
                                    ResultRecord(enc_id, code, att.status, att.rationale))
                   /\ resAt' = AppendRecord(resAt, <<idx, j>>)
                   /\ UNCHANGED <<errors, errAt>>
              ELSE /\ errors' = ErrorsAfter(errors, enc_id, code, att.exc)
                   /\ errAt' = IF errors' = errors THEN errAt
                               ELSE AppendRecord(errAt, <<idx, j>>)
                   /\ UNCHANGED <<results, resAt>>
           /\ pc' = PcAfterAttempt(att)
    /\ UNCHANGED <<sessionVars, inputVars, total_evaluations, current_evaluation,
                   rowsLeft, idx, row, enc_id, j, progress_bar, status_text,
                   signals, ret, invocation, prev>>

Progress ==
    /\ pc = "progress"
    /\ current_evaluation' = current_evaluation + 1
    /\ IF total_evaluations = 0
       THEN /\ pc' = "aborted"      \* ZeroDivisionError
            /\ UNCHANGED <<signals, progress_bar, j>>
       ELSE /\ signals' = Append(signals,
                                 Fraction(current_evaluation', total_evaluations))
            /\ progress_bar' = [progress_bar EXCEPT
                                  !.value = Fraction(current_evaluation', total_evaluations)]
            /\ IF j < Len(PSI_CODES)
               THEN j' = j + 1 /\ pc' = "eval"
               ELSE j' = j /\ pc' = "row"
    /\ UNCHANGED <<sessionVars, inputVars, results, errors, total_evaluations,
                   rowsLeft, idx, row, enc_id, status_text, ret, attempts,
                   resAt, errAt, invocation, prev>>

Finish ==
    /\ pc = "row"
    /\ rowsLeft = << >>
    /\ progress_bar' = [progress_bar EXCEPT !.visible = FALSE]
    /\ status_text' = ""
    /\ ret' = <<RecordFrame(results), RecordFrame(errors)>>
    /\ pc' = "returned"
    /\ UNCHANGED <<sessionVars, inputVars, results, errors, total_evaluations,
                   current_evaluation, rowsLeft, idx, row, enc_id, j, signals,
                   attempts, resAt, errAt, invocation, prev>>

\* A widget call outside the try block (status_text.text, progress_bar.progress)
\* raises: the exception leaves run_psi_analysis.
WidgetCallRaises ==
    /\ \/ pc = "progress"
       \/ pc = "row" /\ rowsLeft # << >>
    /\ pc' = "aborted"
    /\ UNCHANGED <<sessionVars, inputVars, driverVars>>

\* The same frame and engine are analysed again.
Reinvoke ==
    /\ pc = "returned"
    /\ invocation < MaxInvocations
    /\ prev' = ret
    /\ invocation' = invocation + 1
    /\ pc' = "begin"
    /\ UNCHANGED <<sessionVars, inputVars, results, errors, total_evaluations,
                   current_evaluation, rowsLeft, idx, row, enc_id, j, progress_bar,
                   status_text, signals, ret, attempts, resAt, errAt>>

(* ------------------------------ the script ----------------------------- *)
EmptySession == << >>

\* Lines 11-16: every key that is not in the session state gets its default.
InitSessionState(s) ==
    s @@ [results_df |-> None, error_df |-> None, analysis_complete |-> FALSE]

\* Faulty variant of StoreRun: the error frame is not stored.
StoreRunWithoutErrors(s, r, e) ==
    [s EXCEPT !.results_df = r, !.analysis_complete = TRUE]

\* Lines 126-128
StoreRun(s, r, e) ==
    [s EXCEPT !.results_df = r, !.error_df = e, !.analysis_complete = TRUE]

\* Lines 175-178
ClearSession(s) ==
    IF s.analysis_complete
    THEN [s EXCEPT !.results_df = None, !.error_df = None,
                   !.analysis_complete = FALSE]
    ELSE s

\* str.strip() on the column names the uploaded files use
Strip(c) == IF c = " EncounterID " THEN "EncounterID" ELSE c

\* df.columns = df.columns.str.strip()
StripColumns(frame) ==
    LET cols == {Strip(c) : c \in frame.columns}
        old(c) == CHOOSE o \in frame.columns : Strip(o) = c
    IN  [columns |-> cols,
         rows |-> [k \in 1..Len(frame.rows) |->
                      [c \in cols |-> frame.rows[k][old(c)]]]]

\* The frames of the files a user uploads: a header may carry blanks.
Padded(frame) ==
    [columns |-> (frame.columns \ {"EncounterID"}) \cup {" EncounterID "},
     rows |-> [k \in 1..Len(frame.rows) |->
                 [c \in (frame.columns \ {"EncounterID"}) \cup {" EncounterID "} |->
                     IF c = " EncounterID " THEN frame.rows[k]["EncounterID"]
                     ELSE frame.rows[k][c]]]]

RawFrames ==
    FramesUpTo(MaxSessionRows)
      \cup {Padded(f) : f \in {g \in FramesUpTo(MaxSessionRows) :
                                  "EncounterID" \in g.columns}}

\* Faulty variant of PcAfterLoadFailure: an unreadable file is treated as no file.
PcAfterLoadFailureAsNoFile == "else"

\* Lines 168-169: the handler reports the error and the script run ends.
PcAfterLoadFailure == "done"

Ended == {"done", "aborted"}

\* The start of a script run: lines 7-18 and the file uploader of line 95.
\* The locals of the previous script run are gone.
StartRun(file, click) ==
    /\ ss' = InitSessionState(ss)
    /\ pre' = InitSessionState(ss)
    /\ uploaded' = file
    /\ clicked' = click
    /\ buttonShown' = FALSE
    /\ shown' = "none"
    /\ fatal' = "none"
    /\ entered' = FALSE
    /\ df' = None
    /\ calculator' = None
    /\ results' = << >>
    /\ errors' = << >>
    /\ total_evaluations' = 0
    /\ current_evaluation' = 0
    /\ rowsLeft' = << >>
    /\ idx' = 0
    /\ row' = None
    /\ enc_id' = ""
    /\ j' = 1
    /\ progress_bar' = None
    /\ status_text' = ""
    /\ signals' = << >>
    /\ ret' = None
    /\ attempts' = << >>
    /\ resAt' = << >>
    /\ errAt' = << >>
    /\ pc' = IF file # None THEN "load" ELSE "else"
    /\ UNCHANGED <<storedFor, invocation, prev>>

\* The page is opened: the first script run, without a file.
Open ==
    /\ pc = "new"
    /\ StartRun(None, FALSE)
    /\ UNCHANGED uploads

\* A file is put into the uploader, replacing the one that was there.
Upload ==
    /\ pc \in Ended
    /\ uploads < MaxUploads
    /\ uploads' = uploads + 1
    /\ \E f \in {[id |-> uploads + 1, loadable |-> TRUE, frame |-> r] : r \in RawFrames}
              \cup {[id |-> uploads + 1, loadable |-> FALSE, frame |-> None]} :
          StartRun(f, FALSE)

\* The file is removed from the uploader.
Remove ==
    /\ pc \in Ended
    /\ uploaded # None
    /\ StartRun(None, FALSE)
    /\ UNCHANGED uploads

\* The "Analyze PSI" button is clicked.
Click ==
    /\ pc \in Ended
    /\ buttonShown
    /\ StartRun(uploaded, TRUE)
    /\ UNCHANGED uploads

\* A widget of the results view (view mode, filters) is changed.
Interact ==
    /\ pc \in Ended
    /\ shown = "results"
    /\ StartRun(uploaded, FALSE)
    /\ UNCHANGED uploads

\* Lines 171-178
NoFile ==
    /\ pc = "else"
    /\ ss' = ClearSession(ss)
    /\ pc' = "done"
    /\ UNCHANGED <<uploaded, uploads, clicked, buttonShown, shown, pre, fatal,
                   entered, storedFor, inputVars, driverVars>>

\* Lines 98-108: pd.read_csv / pd.read_excel raise for a file they cannot
\* parse, and the handler of line 168 catches it.
Load ==
    /\ pc = "load"
    /\ IF uploaded.loadable
       THEN /\ df' = StripColumns(uploaded.frame)
            /\ pc' = "init"
            /\ UNCHANGED <<fatal, shown>>
       ELSE /\ fatal' = "load"
            /\ shown' = "error"
            /\ pc' = PcAfterLoadFailure
            /\ UNCHANGED df
    /\ UNCHANGED <<ss, uploaded, uploads, clicked, buttonShown, pre, entered,
                   storedFor, calculator, driverVars>>

\* Lines 110-118: the constructor returns an engine, or raises and st.stop()
\* ends the script run.
InitCalculator ==
    /\ pc = "init"
    /\ \/ /\ calculator' \in SessionEngines
          /\ pc' = "button"
          /\ UNCHANGED <<fatal, shown>>
       \/ /\ fatal' = "engine"
          /\ shown' = "error"
          /\ pc' = "done"
          /\ UNCHANGED calculator
    /\ UNCHANGED <<ss, uploaded, uploads, clicked, buttonShown, pre, entered,
                   storedFor, df, driverVars>>

\* Line 121
Button ==
    /\ pc = "button"
    /\ buttonShown' = TRUE
    /\ pc' = IF clicked THEN "begin" ELSE "display"
    /\ UNCHANGED <<ss, uploaded, uploads, clicked, shown, pre, fatal, entered,
                   storedFor, inputVars, driverVars>>

\* Lines 123-130
Store ==
    /\ pc = "returned"
    /\ ss' = StoreRun(ss, ret[1], ret[2])
    /\ storedFor' = uploaded.id
    /\ pc' = "display"
    /\ UNCHANGED <<uploaded, uploads, clicked, buttonShown, shown, pre, fatal,
                   entered, inputVars, driverVars>>

\* Lines 133-166: the stored run is shown.  A results frame without
\* columns makes results_df["PSI"] raise KeyError, which line 168 catches.
Display ==
    /\ pc = "display"
    /\ shown' = IF ss.analysis_complete /\ ss.results_df # None
                THEN IF "PSI" \in ss.results_df.columns THEN "results" ELSE "error"
                ELSE "none"
    /\ pc' = "done"
    /\ UNCHANGED <<ss, uploaded, uploads, clicked, buttonShown, pre, fatal,
                   entered, storedFor, inputVars, driverVars>>

InitDriver ==
    /\ pc = "begin"
    /\ df \in FramesUpTo(MaxRows)
    /\ calculator \in AllEngines
    /\ ss = EmptySession
    /\ uploaded = None
    /\ uploads = 0
    /\ clicked = FALSE
    /\ buttonShown = FALSE
    /\ shown = "none"
    /\ pre = EmptySession
    /\ fatal = "none"
    /\ entered = FALSE
    /\ storedFor = 0
    /\ results = << >>
    /\ errors = << >>
    /\ total_evaluations = 0
    /\ current_evaluation = 0
    /\ rowsLeft = << >>
    /\ idx = 0
    /\ row = None
    /\ enc_id = ""
    /\ j = 1
    /\ progress_bar = None
    /\ status_text = ""
    /\ signals = << >>
    /\ ret = None
    /\ attempts = << >>
    /\ resAt = << >>
    /\ errAt = << >>
    /\ invocation = 1
    /\ prev = None

NextDriver ==
    \/ Begin
    \/ NextRow
    \/ Evaluate
    \/ Progress
    \/ Finish
    \/ WidgetCallRaises
    \/ Reinvoke

DriverSpec == InitDriver /\ [][NextDriver]_vars

InitSession ==
    /\ pc = "new"
    /\ df = None
    /\ calculator = None
    /\ ss = EmptySession
    /\ uploaded = None
    /\ uploads = 0
    /\ clicked = FALSE
    /\ buttonShown = FALSE
    /\ shown = "none"
    /\ pre = EmptySession
    /\ fatal = "none"
    /\ entered = FALSE
    /\ storedFor = 0
    /\ results = << >>
    /\ errors = << >>
    /\ total_evaluations = 0
    /\ current_evaluation = 0
    /\ rowsLeft = << >>
    /\ idx = 0
    /\ row = None
    /\ enc_id = ""
    /\ j = 1
    /\ progress_bar = None
    /\ status_text = ""
    /\ signals = << >>
    /\ ret = None
    /\ attempts = << >>
    /\ resAt = << >>
    /\ errAt = << >>
    /\ invocation = 1
    /\ prev = None

NextSession ==
    \/ Open
    \/ Upload
    \/ Remove
    \/ Click
    \/ Interact
    \/ NoFile
    \/ Load
    \/ InitCalculator
    \/ Button
    \/ Begin
    \/ NextRow
    \/ Evaluate
    \/ Progress
    \/ Finish
    \/ WidgetCallRaises
    \/ Store
    \/ Display

SessionSpec == InitSession /\ [][NextSession]_vars

(* ---------------------------- properties -------------------------------- *)
Count(seq, x) == Cardinality({k \in DOMAIN seq : seq[k] = x})

\* The (row index, code position) pairs of the frame under analysis.
Pairs == {<<i, c>> : i \in 0..(LenDf(df) - 1), c \in 1..Len(PSI_CODES)}

LexLess(a, b) == a[1] < b[1] \/ (a[1] = b[1] /\ a[2] < b[2])

Increasing(seq) == \A k \in 1..(Len(seq) - 1) : LexLess(seq[k], seq[k + 1])

\* Whether the attempt on a pair of the frame ends in the except branch.
Faulted(p) == ~Attempt(calculator, df.rows[p[1] + 1], PSI_CODES[p[2]]).ok

\* C1: when run_psi_analysis returns, every (encounter position, code) pair
\* has produced exactly one record, a result or an error, so that
\* len(results) + len(errors) = len(E) * len(C).
C1_OneRecordPerPair ==
    pc = "returned" =>
        /\ Len(results) + Len(errors) = LenDf(df) * Len(PSI_CODES)
        /\ Len(ret[1].rows) + Len(ret[2].rows) = LenDf(df) * Len(PSI_CODES)
        /\ Len(resAt) = Len(results) /\ Len(errAt) = Len(errors)
        /\ \A p \in Pairs : Count(resAt, p) + Count(errAt, p) = 1

C1_Witness ==
    /\ pc = "returned"
    /\ LenDf(df) >= 2
    /\ results # << >>
    /\ errors # << >>
    /\ calculator.failOn = "noid"

\* C2: an engine fault on a pair appends exactly one error record for that
\* pair (identifier, code, description) and control goes on to the progress
\* step; no pair is attempted twice, and when the run returns every pair
\* was attempted exactly once and every faulted pair has one error record.
C2_FaultIsolated ==
    /\ [][(pc = "eval" /\ ~Attempt(calculator, row, PSI_CODES[j]).ok) =>
            /\ pc' = "progress"
            /\ results' = results
            /\ errors' = Append(errors,
                   [EncounterID |-> enc_id, PSI |-> PSI_CODES[j],
                    Error |-> Str(Attempt(calculator, row, PSI_CODES[j]).exc)])
            /\ attempts' = Append(attempts, <<idx, j>>)]_vars
    /\ [](\A p \in Pairs : Count(attempts, p) <= 1)
    /\ [](pc = "returned" =>
            \A p \in Pairs : /\ Count(attempts, p) = 1
                             /\ Faulted(p) => Count(errAt, p) = 1 /\ Count(resAt, p) = 0)

C2_Witness ==
    /\ pc = "returned"
    /\ calculator.failOn = "somecodes"
    /\ Len(errors) = 2 * LenDf(df)
    /\ LenDf(df) >= 1
    /\ Count(attempts, <<0, Len(PSI_CODES)>>) = 1

\* C3: one progress value per attempt; the k-th value is k/total, so the
\* values of a returned run are len(E)*len(C) many, strictly increasing,
\* start above 0 and end at exactly 1.
C3_Progress ==
    /\ Len(signals) = current_evaluation \/ pc = "aborted"
    /\ pc \in {"eval", "row", "returned"} => Len(signals) = Len(attempts)
    /\ pc = "returned" =>
        /\ Len(signals) = LenDf(df) * Len(PSI_CODES)
        /\ \A k \in 1..Len(signals) : signals[k] = <<k, LenDf(df) * Len(PSI_CODES)>>
        /\ \A k \in 1..(Len(signals) - 1) :
              signals[k][1] * signals[k + 1][2] < signals[k + 1][1] * signals[k][2]
        /\ signals # << >> =>
              /\ signals[1][1] > 0 /\ signals[1][2] > 0
              /\ signals[Len(signals)][1] = signals[Len(signals)][2]

C3_Witness ==
    /\ pc = "returned"
    /\ Len(signals) = 2 * Len(PSI_CODES)
    /\ calculator.failOn = "always"

\* C4: records keep the iteration order (encounter position first, code
\* position second) within results and within errors, and a second run on
\* the same frame with the same engine returns the same two frames.
C4_OrderAndDeterminism ==
    pc = "returned" =>
        /\ Increasing(resAt)
        /\ Increasing(errAt)
        /\ \A k \in 1..Len(results) :
              /\ k <= Len(resAt)
              /\ results[k].PSI = PSI_CODES[resAt[k][2]]
              /\ results[k].EncounterID = EncId(df.rows[resAt[k][1] + 1], resAt[k][1])
        /\ \A k \in 1..Len(errors) :
              /\ k <= Len(errAt)
              /\ errors[k].PSI = PSI_CODES[errAt[k][2]]
              /\ errors[k].EncounterID = EncId(df.rows[errAt[k][1] + 1], errAt[k][1])
        /\ invocation > 1 => ret = prev

C4_Witness ==
    /\ pc = "returned"
    /\ invocation = 2
    /\ LenDf(df) >= 2
    /\ results # << >>
    /\ errors # << >>
    /\ calculator.failOn = "somecodes"

\* C5: in every record, a row without an EncounterID is identified as
\* "Row{i+1}" and a row with one keeps it.
C5_RowIdentifier ==
    pc = "returned" =>
        /\ \A k \in 1..Len(results) :
              LET i == resAt[k][1]
                  r == df.rows[i + 1]
              IN  results[k].EncounterID =
                     IF HasId(r) THEN r["EncounterID"] ELSE RowLabel(i)
        /\ \A k \in 1..Len(errors) :
              LET i == errAt[k][1]
                  r == df.rows[i + 1]
              IN  errors[k].EncounterID =
                     IF HasId(r) THEN r["EncounterID"] ELSE RowLabel(i)

\* C6: once a script run has ended (without a fatal error) with no file,
\* or with another file than the one the stored run was computed from, the
\* stored run is discarded and is not shown.
C6_DiscardedOnClearOrReplace ==
    (pc \in Ended /\ fatal = "none"
       /\ (uploaded = None \/ uploaded.id # storedFor)) =>
        /\ ss.results_df = None
        /\ ss.error_df = None
        /\ ss.analysis_complete = FALSE
        /\ shown # "results"

\* C7: if every engine call of a returned run raised, results is empty,
\* errors has len(E)*len(C) entries, and every Error field is non-empty.
C7_AllFaultsDescribed ==
    (pc = "returned" /\ \A p \in Pairs :
         EvaluatePsi(calculator, df.rows[p[1] + 1], PSI_CODES[p[2]]).kind = "raise") =>
        /\ results = << >>
        /\ Len(errors) = LenDf(df) * Len(PSI_CODES)
        /\ \A k \in 1..Len(errors) : errors[k].Error # ""

\* C8: a script run in which the file cannot be loaded or the engine cannot
\* be constructed ends without entering run_psi_analysis, without an engine
\* call, and with the session state it started with.
C8_FatalBeforeEvaluation ==
    fatal # "none" =>
        /\ pc = "done"
        /\ ~entered
        /\ attempts = << >>
        /\ ss = pre

C8_Witness ==
    /\ fatal = "load"
    /\ pc = "done"
    /\ ss.analysis_complete

\* C9: on an empty frame run_psi_analysis returns two empty frames, without
\* an engine call, without a progress value and without an error.
C9_EmptyFrame ==
    LenDf(df) = 0 =>
        /\ pc \in {"begin", "row", "returned"}
        /\ attempts = << >>
        /\ signals = << >>
        /\ results = << >> /\ errors = << >>
        /\ pc = "returned" => ret = <<RecordFrame(<< >>), RecordFrame(<< >>)>>

C9_Witness ==
    /\ pc = "returned"
    /\ LenDf(df) = 0
    /\ total_evaluations = 0
    /\ ret[1].rows = << >>

\* C10: at the end of every script run analysis_complete holds exactly when
\* results_df is set and exactly when error_df is set; a script run that
\* completes the session stores the two frames run_psi_analysis returned,
\* and a script run that is aborted leaves the session as it was.
C10_SessionConsistent ==
    /\ pc \in Ended =>
          /\ ss.analysis_complete <=> ss.results_df # None
          /\ ss.analysis_complete <=> ss.error_df # None
    /\ pc = "aborted" => ss = pre
    /\ (ss # EmptySession /\ ss # pre /\ ss.analysis_complete) =>
          /\ ret # None
          /\ ss.results_df = ret[1]
          /\ ss.error_df = ret[2]

C10_Witness ==
    /\ pc = "done"
    /\ ss.analysis_complete
    /\ ss # pre
    /\ ss.error_df.rows # << >>

====
